---- MODULE Spec2Model ----
\* swanky-cli: the `init` command (template generation and --convert), its
\* task queue, the confirmation gate, the module-name resolver and the
\* package.json / Cargo.toml merges.
EXTENDS Integers, Sequences, FiniteSets, TLC

VARIABLES
    pc,                 \* position of Init.run: "start", "generate", "convert", ...
    state,              \* executor state: "Idle", "Running", "Completed", "Aborted"
    error,              \* the error the command ended with, or "none"
    taskQueue,          \* this.taskQueue
    idx,                \* position of the for..of loop over taskQueue
    inflight,           \* TRUE while a task's operation is awaited
    trace,              \* events of the executor, in order
    configBuilder,      \* this.configBuilder
    candidatesList,     \* convert(): the candidates found in the existing project
    confirmedCopyList,  \* convert(): the list returned by detectModuleNames
    disk,               \* what the tasks have written into the new project
    banner,             \* the success banner was logged
    fs,                 \* the file system when the command starts: what the project
                        \* path and the --convert path are, the existing project's
                        \* manifests and whether it has a package.json
    pending,            \* run(): the ensureDir calls of the forEach callbacks that
                        \* have not resolved: contract name -> directory being made
    arg,                \* input of the function under check (function specifications)
    ret                 \* its result

vars == <<pc, state, error, taskQueue, idx, inflight, trace, configBuilder,
          candidatesList, confirmedCopyList, disk, banner, fs, pending, arg, ret>>

runVars == <<pc, state, error, taskQueue, idx, inflight, trace, configBuilder,
             candidatesList, confirmedCopyList, disk, banner, fs, pending>>

--------------------------------------------------------------------------
\* Bounds of the model

\* getManualPaths: how many directories the user adds for one directory type
MaxPaths == 1

\* longest candidate group handed to confirmCopyList / detectModuleNames
MaxGroupLen == 2

\* longest array in a package.json value
MaxArrLen == 2

--------------------------------------------------------------------------
\* JavaScript values

Undefined == "<undefined>"

\* `if (x)` on a string-or-undefined value
Truthy(v) == v \notin {Undefined, ""}

EmptyObj == [k \in {} |-> k]

\* obj[key] = value
Put(obj, key, value) ==
    [k \in (DOMAIN obj) \cup {key} |-> IF k = key THEN value ELSE obj[k]]

Range(s) == {s[i] : i \in 1..Len(s)}

SeqsUpTo(S, n) == UNION {[1..k -> S] : k \in 0..n}

RECURSIVE Concat(_)
Concat(ss) == IF ss = <<>> THEN <<>> ELSE Head(ss) \o Concat(Tail(ss))

\* the elements of s at the positions in picked, in the order of s
PickSeq(s, picked) ==
    LET F[i \in 0..Len(s)] ==
            IF i = 0 THEN <<>>
            ELSE IF i \in picked THEN Append(F[i - 1], s[i]) ELSE F[i - 1]
    IN  F[Len(s)]

\* the first occurrence of every element of s, in the order of s
Unique(s) == PickSeq(s, {i \in 1..Len(s) : \A j \in 1..(i - 1) : s[j] # s[i]})

--------------------------------------------------------------------------
\* Paths: a path is the sequence of its segments

resolve(base, seg) == Append(base, seg)

basename(p) == p[Len(p)]

\* the existing project given to --convert, and the new project
SrcRoot == <<"old">>

--------------------------------------------------------------------------
\* The source project of a conversion (what the file system holds)

\* directories of the existing project the fuzzy-path prompt offers
SrcDirs == {"contracts", "crates", "tests"}

\* the listing of each directory: the children, in directory order
SrcListing ==
    [d \in SrcDirs \cup {"test", "spec", "specs"} |->
        CASE d = "contracts" -> << [name |-> "lib.rs", isDir |-> FALSE],
                                   [name |-> "flipper", isDir |-> TRUE] >>
          [] d = "crates"    -> << [name |-> "util", isDir |-> TRUE] >>
          [] OTHER           -> << [name |-> "flipper.test.ts", isDir |-> FALSE] >>]

\* a globby entry in objectMode: name, path and dirent
PathEntryOf(d, c) ==
    [name |-> c.name, path |-> resolve(resolve(SrcRoot, d), c.name), isDir |-> c.isDir]

\* getGlobPaths: the children of the given directories, one level deep; only
\* files (globby's default) or only directories. One globby call returns
\* each path once.
getGlobPaths(globList, isDirOnly) ==
    LET perGlob == [i \in 1..Len(globList) |->
            LET d  == globList[i]
                ch == SelectSeq(SrcListing[d], LAMBDA c : c.isDir = isDirOnly)
            IN  [j \in 1..Len(ch) |-> PathEntryOf(d, ch[j])]]
    IN  Unique(Concat(perGlob))

getDirsAndFiles(globList) ==
    getGlobPaths(globList, FALSE) \o getGlobPaths(globList, TRUE)

getCopyCandidatesList(pathsToCopy) ==
    [contracts |-> getDirsAndFiles(pathsToCopy.contractsDirectories),
     crates    |-> IF Len(pathsToCopy.cratesDirectories) > 0
                   THEN getDirsAndFiles(pathsToCopy.cratesDirectories)
                   ELSE <<>>]

\* the directories the user is taken to select for each directory type
ManualDirs(directoryType) ==
    IF directoryType = "tests" THEN {"tests", "contracts"} ELSE {"contracts", "crates"}

\* getManualPaths: the answers the user can give, one directory per round
\* and "more paths?" answered yes at most MaxPaths - 1 times
getManualPaths(directoryType) ==
    IF directoryType = "tests"
    THEN {<<d>> : d \in ManualDirs(directoryType)}
    ELSE UNION {[1..k -> ManualDirs(directoryType)] : k \in 1..MaxPaths}

\* detectTests: the directory names looked for, in this order
testDirNames == <<"test", "tests", "spec", "specs">>

\* the directories of the existing project that are there whatever the test
\* directories are
AlwaysThere == {"contracts", "crates"}

\* detectTests: the first of testDirNames that exists, undefined when none does
firstExisting(existing) ==
    LET found == {k \in 1..Len(testDirNames) : testDirNames[k] \in existing}
    IN  IF found = {} THEN Undefined
        ELSE testDirNames[CHOOSE k \in found : \A j \in found : k <= j]

\* detectTests: the `when` of the second question: nothing was detected or
\* the first question was answered no
inputAsked(testDirDetected, shouldUseDetectedTestDir) ==
    (testDirDetected /\ ~shouldUseDetectedTestDir) \/ ~testDirDetected

\* detectTests: an answer that was not asked for is undefined; only
\* shouldInputTestDir is read from the answers
detectTests(existing, shouldUseDetectedTestDir, shouldInputTestDir, manual) ==
    LET testDir == firstExisting(existing)
        testDirDetected == testDir # Undefined
    IN  IF inputAsked(testDirDetected, shouldUseDetectedTestDir) /\ shouldInputTestDir
        THEN manual[1]
        ELSE testDir

\* convert(): candidatesList.tests, from testDir when it is set and exists
testsCandidates(testDir, existing) ==
    IF testDir # Undefined /\ testDir \in existing \cup AlwaysThere
    THEN getDirsAndFiles(<<testDir>>)
    ELSE <<>>

--------------------------------------------------------------------------
\* Manifests (Cargo.toml) inside candidate directories

NoManifest == [file |-> "none", pkgName |-> Undefined]
Malformed  == [file |-> "malformed", pkgName |-> Undefined]
Manifest(n) == [file |-> "ok", pkgName |-> n]

\* pkgName Undefined: no [package] table or no name key in it
ManifestKinds ==
    {NoManifest, Malformed, Manifest(Undefined), Manifest(""), Manifest("flipper_pkg")}

\* mutant: the manifest is looked up for files as well
extendedEntryAnyKind(entry, manifests) ==
    LET moduleName == basename(entry.path)
        m == manifests[entry.path]
        ext == [k \in (DOMAIN entry) \cup {"moduleName"} |->
                    IF k = "moduleName" THEN moduleName ELSE entry[k]]
    IN  IF m.file # "none" /\ Truthy(m.pkgName)
        THEN [ext EXCEPT !["moduleName"] = m.pkgName]
        ELSE ext

\* resolution of one entry
extendedEntry(entry, manifests) ==
    LET moduleName == basename(entry.path)
        m == manifests[entry.path]
        ext == [k \in (DOMAIN entry) \cup {"moduleName"} |->
                    IF k = "moduleName" THEN moduleName ELSE entry[k]]
    IN  IF entry.isDir /\ m.file # "none" /\ Truthy(m.pkgName)
        THEN [ext EXCEPT !["moduleName"] = m.pkgName]
        ELSE ext

\* mutant: a manifest that does not parse is skipped silently
parseThrowsNever(entry, manifests) == FALSE

\* TOML.parse throws on the manifest of this entry
parseThrows(entry, manifests) ==
    entry.isDir /\ manifests[entry.path].file = "malformed"

detectModuleNames(copyList, manifests) ==
    IF \E g \in {"contracts", "crates"} :
          \E i \in 1..Len(copyList[g]) : parseThrows(copyList[g][i], manifests)
    THEN [threw |-> TRUE, value |-> Undefined]
    ELSE [threw |-> FALSE,
          value |-> [contracts |-> [i \in 1..Len(copyList.contracts) |->
                                        extendedEntry(copyList.contracts[i], manifests)],
                     crates    |-> [i \in 1..Len(copyList.crates) |->
                                        extendedEntry(copyList.crates[i], manifests)],
                     tests     |-> copyList.tests]]

--------------------------------------------------------------------------
\* The confirmation gate

\* value: { ...entry, group }
withGroup(entry, g) ==
    [k \in (DOMAIN entry) \cup {"group"} |-> IF k = "group" THEN g ELSE entry[k]]

\* the checkbox choices, separators left out: contracts, crates, tests
gateChoices(candidates) ==
    [i \in 1..Len(candidates.contracts) |->
        withGroup(candidates.contracts[i], "contracts")]
    \o [i \in 1..Len(candidates.crates) |->
        withGroup(candidates.crates[i], "crates")]
    \o [i \in 1..Len(candidates.tests) |->
        withGroup(candidates.tests[i], "tests")]

\* mutant: every answer is pushed to the first group
pushGroupFirst(item) == "contracts"

\* the group an answer is pushed to
pushGroup(item) == item.group

\* checked: the positions of the choices the user leaves checked; the prompt
\* answers with their values in the order of the choices
confirmCopyList(candidates, checked) ==
    LET answer == PickSeq(gateChoices(candidates), checked)
    IN  [g \in {"contracts", "crates", "tests"} |->
            SelectSeq(answer, LAMBDA item : pushGroup(item) = g)]

--------------------------------------------------------------------------
\* JSON values of a package.json: a scalar [s |-> n], an array of scalars
\* [a |-> <<..>>], or a mapping [m |-> f] with f total on Keys and Absent
\* where the key is missing

Keys == {"k1", "k2"}

Scalars == {1, 2}

Absent == [absent |-> TRUE]

isMap(v) == "m" \in DOMAIN v
isArr(v) == "a" \in DOMAIN v

\* lodash merge of two arrays: index by index, the source's elements over
\* the destination's
mergeArrays(objArr, srcArr) ==
    [i \in 1..(IF Len(objArr) > Len(srcArr) THEN Len(objArr) ELSE Len(srcArr)) |->
        IF i <= Len(srcArr) THEN srcArr[i] ELSE objArr[i]]

\* lodash merge(object, source), as the JSON written afterwards shows it
RECURSIVE merge(_, _)
mergeValue(objValue, srcValue) ==
    IF isMap(srcValue)
    THEN IF isMap(objValue) THEN merge(objValue, srcValue)
         ELSE IF isArr(objValue) THEN objValue   \* named keys set on an array are not serialised
         ELSE srcValue
    ELSE IF isArr(srcValue)
    THEN IF isArr(objValue) THEN [a |-> mergeArrays(objValue.a, srcValue.a)]
         ELSE srcValue
    ELSE srcValue

merge(object, source) ==
    [m |-> [k \in Keys |->
                IF source.m[k] = Absent THEN object.m[k]
                ELSE mergeValue(object.m[k], source.m[k])]]

--------------------------------------------------------------------------
\* The root Cargo.toml: a TOML object maps a table name to a table, a table
\* maps a key to a list of strings

RootFile(kind, toml) == [file |-> kind, toml |-> toml]

RootFiles ==
    { RootFile("none", EmptyObj),
      RootFile("malformed", EmptyObj),
      RootFile("ok", [package |-> [name |-> <<"old_root">>]]),
      RootFile("ok", [workspace |-> [exclude |-> <<"target">>]]),
      RootFile("ok", [workspace |-> [members |-> <<"a", "b/*">>]]) }

\* null, or the parsed object with a workspace table
readRootCargoToml(rootFile) ==
    IF rootFile.file = "none" THEN [null |-> TRUE, toml |-> EmptyObj]
    ELSE [null |-> FALSE,
          toml |-> IF "workspace" \notin DOMAIN rootFile.toml
                   THEN Put(rootFile.toml, "workspace", EmptyObj)
                   ELSE rootFile.toml]

WorkspaceMembers == <<"contracts/*">>

\* mutant: members are only set when the existing manifest has none
rootTomlKeepsMembers(rootFile) ==
    LET r  == readRootCargoToml(rootFile)
        t0 == IF r.null THEN Put(EmptyObj, "workspace", EmptyObj) ELSE r.toml
    IN  IF "members" \in DOMAIN t0["workspace"] THEN t0
        ELSE Put(t0, "workspace", Put(t0["workspace"], "members", WorkspaceMembers))

\* convert(): rootToml after `rootToml.workspace.members = [...]`
rootTomlOf(rootFile) ==
    LET r  == readRootCargoToml(rootFile)
        t0 == IF r.null THEN Put(EmptyObj, "workspace", EmptyObj) ELSE r.toml
    IN  Put(t0, "workspace", Put(t0["workspace"], "members", WorkspaceMembers))

\* TOML.stringify: the table headers and the key/value lines under each
TOMLstringify(tomlObject) ==
    [tables |-> DOMAIN tomlObject,
     lines  |-> UNION {{<<t, k, tomlObject[t][k]>> : k \in DOMAIN tomlObject[t]} :
                        t \in DOMAIN tomlObject}]

NoToml == [tables |-> {}, lines |-> {}]

--------------------------------------------------------------------------
\* Tasks

Task(name, args, shouldExitOnError, callback) ==
    [task |-> name, args |-> args, shouldExitOnError |-> shouldExitOnError,
     callback |-> callback]

copyCommonTemplateFilesTask ==
    Task("copyCommonTemplateFiles", <<>>, Undefined, Undefined)

checkCliDependenciesTask == Task("checkCliDependencies", <<>>, Undefined, Undefined)

copyContractTemplateFilesTask(contractName) ==
    Task("copyContractTemplateFiles", <<contractName>>, Undefined, Undefined)

processTemplatesTask == Task("processTemplates", <<>>, Undefined, Undefined)

copyWorkspaceContractsTask(copyList) ==
    Task("copyWorkspaceContracts", copyList, "true", "consoleLog")

writeCargoTomlTask(rootToml) == Task("writeCargoToml", rootToml, Undefined, Undefined)

copyWorkspaceFilesTask == Task("copyWorkspaceFiles", <<>>, Undefined, Undefined)

mergePackageJsonTask == Task("mergePackageJson", <<>>, Undefined, Undefined)

\* mutant: shouldExitOnError left out
installDepsTaskFatal == Task("installDeps", <<>>, Undefined, Undefined)

installDepsTask == Task("installDeps", <<>>, "false", Undefined)

gitInitTask == Task("gitInit", <<>>, Undefined, Undefined)

downloadNodeTask == Task("downloadNode", <<>>, Undefined, "setLocalPath")

writeConfigTask == Task("writeConfig", <<>>, Undefined, Undefined)

\* where downloadNode can put the binary
NodePaths == {"bin/swanky-node"}

\* what a task's operation resolves to
TaskResults(name) ==
    CASE name = "downloadNode" -> NodePaths
      [] name = "gitInit"      -> {"[execa result]"}
      [] OTHER                 -> {Undefined}

\* the spinner's runCommand when the command throws: exit unless the task
\* says shouldExitOnError: false
runCommandExits(shouldExitOnError) == shouldExitOnError # "false"

\* package.json of the template and of the existing project
TemplatePJson ==
    [m |-> [k \in Keys |-> IF k = "k1" THEN [s |-> 1] ELSE [a |-> <<1, 2>>]]]

ExistingPJsons ==
    { [m |-> [k \in Keys |-> IF k = "k1" THEN [s |-> 2] ELSE Absent]],
      [m |-> [k \in Keys |-> IF k = "k1" THEN Absent ELSE [a |-> <<2>>]]] }

NoFile == Absent

\* copyWorkspaceContracts: the destinations written under the project
copyWorkspaceContracts(copyList) ==
    [dirs   |-> {"contracts", "crates", "tests"},
     copies |-> UNION {{<<g, copyList[g][i].name>> : i \in 1..Len(copyList[g])} :
                        g \in {"contracts", "crates", "tests"}}]

NoCopies == [dirs |-> {}, copies |-> {}]

\* the three groups in the order of the loop
GroupOrder == <<"contracts", "crates", "tests">>

\* mutant: the entry is copied into the project's root
destPathInRoot(destDir, entry) == <<entry.name>>

\* path.join(destDir, entry.name), relative to the project path
destPath(destDir, entry) == Append(destDir, entry.name)

\* copyWorkspaceContracts: the calls of ensureDir and copy, in order
copyOps(copyList) ==
    Concat([k \in 1..Len(GroupOrder) |->
        LET group   == GroupOrder[k]
            destDir == <<group>>
        IN  << [op |-> "ensureDir", src |-> <<>>, isDir |-> TRUE, dest |-> destDir] >>
            \o [i \in 1..Len(copyList[group]) |->
                   LET entry == copyList[group][i]
                   IN  [op |-> "copy", src |-> entry.path, isDir |-> entry.isDir,
                        dest |-> destPath(destDir, entry)]]])

\* the project directory after one call: tree maps a path to what is there
\* and the source it was copied from. ensureDir leaves an existing directory
\* alone. copy overwrites: a file replaces the file that is there, and a
\* directory is merged into the one that is there, its files replacing those
\* of the same name (contract directories hold the same file names, lib.rs
\* and Cargo.toml), so the destination holds the later source.
opEffect(tree, o) ==
    IF o.op = "ensureDir" /\ o.dest \in DOMAIN tree THEN tree
    ELSE Put(tree, o.dest, [isDir |-> o.isDir, from |-> o.src])

\* mutant: the config task writes the node settings it saw when it was queued
taskEffectQueuedConfig(t, d, cfg, existingPJson) ==
    LET d1 == [d EXCEPT !.done = @ \cup {t.task}]
    IN  CASE t.task = "copyCommonTemplateFiles" -> [d1 EXCEPT !.packageJson = TemplatePJson]
          [] t.task = "copyWorkspaceContracts"  ->
                [d1 EXCEPT !.copied = copyWorkspaceContracts(t.args)]
          [] t.task = "writeCargoToml"          ->
                [d1 EXCEPT !.cargoToml = TOMLstringify(t.args)]
          [] t.task = "mergePackageJson"        ->
                [d1 EXCEPT !.packageJson = merge(d.packageJson, existingPJson)]
          [] t.task = "writeConfig"             ->
                [d1 EXCEPT !.config = [cfg EXCEPT !.node = [localPath |-> ""]],
                           !.configWrites = @ + 1]
          [] OTHER                              -> d1

\* the new project after the operation of task t has completed
taskEffect(t, d, cfg, existingPJson) ==
    LET d1 == [d EXCEPT !.done = @ \cup {t.task}]
    IN  CASE t.task = "copyCommonTemplateFiles" -> [d1 EXCEPT !.packageJson = TemplatePJson]
          [] t.task = "copyWorkspaceContracts"  ->
                [d1 EXCEPT !.copied = copyWorkspaceContracts(t.args)]
          [] t.task = "writeCargoToml"          ->
                [d1 EXCEPT !.cargoToml = TOMLstringify(t.args)]
          [] t.task = "mergePackageJson"        ->
                [d1 EXCEPT !.packageJson = merge(d.packageJson, existingPJson)]
          [] t.task = "writeConfig"             ->
                [d1 EXCEPT !.config = cfg, !.configWrites = @ + 1]
          [] OTHER                              -> d1

\* the callback of task t applied to the result
callbackEffect(t, result, cfg) ==
    IF t.callback = "setLocalPath"
    THEN [cfg EXCEPT !.node = [@ EXCEPT !.localPath = result]]
    ELSE cfg

\* `if (result && callback)`
callbackRuns(t, result) == Truthy(result) /\ t.callback # Undefined

\* mutant: the loop skips a task
nextTaskSkips(i) == i + 2

\* the for..of loop: the task after task i
nextTask(i) == i + 1

Event(ev, i, v) == [ev |-> ev, i |-> i, v |-> v]

--------------------------------------------------------------------------
\* The init command

\* the paths of the existing project's entries and the manifests they can hold
SrcEntries == UNION {{PathEntryOf(d, SrcListing[d][i]) : i \in 1..Len(SrcListing[d])} :
                     d \in SrcDirs}

\* a file holds no manifest; the crate's manifest, if any, does not parse
SrcManifests ==
    {f \in [{e.path : e \in SrcEntries} -> ManifestKinds \ {Manifest("")}] :
        \A e \in SrcEntries :
            /\ ~e.isDir => f[e.path] = NoManifest
            /\ e.name = "util" => f[e.path] \in {NoManifest, Malformed}}

InitialConfig ==
    [node |-> [localPath |-> ""], accounts |-> <<>>, contracts |-> EmptyObj]

EmptyDisk ==
    [done |-> {}, packageJson |-> NoFile, cargoToml |-> NoToml, copied |-> NoCopies,
     config |-> NoFile, configWrites |-> 0, dirs |-> {}]

\* no manifest anywhere in the existing project
NoManifests == [q \in {e.path : e \in SrcEntries} |-> NoManifest]

\* what stat() and readdir() can say of a path
PathStats == {"ENOENT", "emptyDir", "nonEmptyDir", "file"}

\* the file system a run starts from. The manifests of the existing project
\* vary for a project path that does not exist and an existing project that
\* is a non-empty directory without package.json; the project path, the
\* --convert path and the package.json vary, one at a time, over an existing
\* project without manifests.
FsStates ==
    {[manifests |-> f, projectPath |-> "ENOENT", convertPath |-> "nonEmptyDir",
      packageJson |-> FALSE] : f \in SrcManifests}
    \cup {[manifests |-> NoManifests, projectPath |-> s, convertPath |-> c,
           packageJson |-> FALSE] :
              s \in PathStats, c \in PathStats \ {"file"}}
    \cup {[manifests |-> NoManifests, projectPath |-> "ENOENT",
           convertPath |-> "nonEmptyDir", packageJson |-> TRUE]}

NoPending == [c \in {} |-> c]

NoList == [contracts |-> <<>>, crates |-> <<>>, tests |-> <<>>]

RunInit ==
    /\ pc = "start"
    /\ state = "Idle"
    /\ error = "none"
    /\ taskQueue = <<>>
    /\ idx = 1
    /\ inflight = FALSE
    /\ trace = <<>>
    /\ configBuilder = InitialConfig
    /\ candidatesList = NoList
    /\ confirmedCopyList = NoList
    /\ disk = EmptyDisk
    /\ banner = FALSE
    /\ pending = NoPending

NoArg == [fn |-> "none"]

NotRun == [done |-> FALSE]

Init ==
    /\ RunInit
    /\ fs \in FsStates
    /\ arg = NoArg
    /\ ret = NotRun

\* the command rejects with error e
Throw(e) ==
    /\ pc' = "end"
    /\ error' = e

\* run(): the project path check and the first task. The InputError thrown
\* for a directory that is not empty is thrown inside the try block, and the
\* catch block throws UnknownError for every error whose message has no
\* "ENOENT" in it; a path that is no directory passes the check.
CheckProjectPath ==
    /\ pc = "start"
    /\ \E convert \in BOOLEAN :
          LET pathStat == fs.projectPath
          IN  IF pathStat = "nonEmptyDir"
              THEN /\ Throw("UnknownError")
                   /\ UNCHANGED taskQueue
              ELSE /\ taskQueue' = Append(taskQueue, copyCommonTemplateFilesTask)
                   /\ pc' = IF convert THEN "convert" ELSE "generate"
                   /\ UNCHANGED error
    /\ UNCHANGED <<state, idx, inflight, trace, configBuilder, candidatesList,
                   confirmedCopyList, disk, banner, fs, pending, arg, ret>>

ContractNames == {"flipper", "myToken"}

snakeCase(n) == IF n = "myToken" THEN "my_token" ELSE n

\* generate()
Generate ==
    /\ pc = "generate"
    /\ \E contractName \in ContractNames :
          /\ taskQueue' = taskQueue \o << checkCliDependenciesTask,
                                          copyContractTemplateFilesTask(contractName),
                                          processTemplatesTask >>
          /\ configBuilder' = [configBuilder EXCEPT !.contracts =
                Put(EmptyObj, contractName,
                    [name |-> contractName, moduleName |-> snakeCase(contractName),
                     deployments |-> <<>>])]
    /\ pc' = "plan"
    /\ UNCHANGED <<state, error, idx, inflight, trace, candidatesList,
                   confirmedCopyList, disk, banner, fs, pending, arg, ret>>

\* mutant: an empty directory is converted like any other
ConvertStatEmptyPasses ==
    /\ pc = "convert"
    /\ IF fs.convertPath = "ENOENT"
       THEN Throw("InputError")
       ELSE pc' = "discover" /\ UNCHANGED error
    /\ UNCHANGED <<state, taskQueue, idx, inflight, trace, configBuilder,
                   candidatesList, confirmedCopyList, disk, banner, fs, pending, arg, ret>>

\* convert(): the check of the existing project's directory
ConvertStat ==
    /\ pc = "convert"
    \* the existing project is taken to be a directory when it exists
    /\ LET pathStat == fs.convertPath
       IN  IF pathStat = "nonEmptyDir"
           THEN pc' = "discover" /\ UNCHANGED error
           ELSE Throw("InputError")
    /\ UNCHANGED <<state, taskQueue, idx, inflight, trace, configBuilder,
                   candidatesList, confirmedCopyList, disk, banner, fs, pending, arg, ret>>

\* convert(): the directory prompts and the candidates
Discover ==
    /\ pc = "discover"
    /\ \E contractsDirectories \in getManualPaths("contracts"),
          shouldSpecifyCratesDir \in BOOLEAN,
          manualCratesPath \in getManualPaths("crates"),
          testsExists \in BOOLEAN,
          shouldUseDetectedTestDir \in BOOLEAN,
          shouldInputTestDir \in BOOLEAN,
          manualTestDir \in getManualPaths("tests") :
          LET copyGlobsList ==
                  [contractsDirectories |-> contractsDirectories,
                   cratesDirectories |-> IF shouldSpecifyCratesDir
                                         THEN manualCratesPath ELSE <<>>]
              found == getCopyCandidatesList(copyGlobsList)
              \* of the names looked for this project can have tests/
              existing == IF testsExists THEN {"tests"} ELSE {}
              testDir == detectTests(existing, shouldUseDetectedTestDir,
                                     shouldInputTestDir, manualTestDir)
          IN  candidatesList' =
                  [contracts |-> found.contracts,
                   crates    |-> found.crates,
                   tests     |-> testsCandidates(testDir, existing)]
    /\ pc' = "gate"
    /\ UNCHANGED <<state, error, taskQueue, idx, inflight, trace, configBuilder,
                   confirmedCopyList, disk, banner, fs, pending, arg, ret>>

\* mutant: a name that has an entry keeps it
addContractsKeepsFirst(contracts, entries) ==
    LET F[i \in 0..Len(entries)] ==
            IF i = 0 THEN contracts
            ELSE IF entries[i].name \in DOMAIN F[i - 1] THEN F[i - 1]
            ELSE Put(F[i - 1], entries[i].name,
                     [name |-> entries[i].name, moduleName |-> entries[i].moduleName,
                      deployments |-> <<>>])
    IN  F[Len(entries)]

\* configBuilder.contracts after the loop over the confirmed contracts
RECURSIVE addContracts(_, _)
addContracts(contracts, entries) ==
    IF entries = <<>> THEN contracts
    ELSE LET contract == Head(entries)
         IN  addContracts(Put(contracts, contract.name,
                              [name |-> contract.name,
                               moduleName |-> contract.moduleName,
                               deployments |-> <<>>]),
                          Tail(entries))

\* convert(): the gate, the module names, the two tasks and the contracts
Confirm ==
    /\ pc = "gate"
    /\ \E checked \in SUBSET (1..Len(gateChoices(candidatesList))) :
          LET r == detectModuleNames(confirmCopyList(candidatesList, checked),
                                     fs.manifests)
          IN  IF r.threw
              THEN /\ Throw("ManifestParseError")
                   /\ UNCHANGED <<taskQueue, configBuilder, confirmedCopyList>>
              ELSE /\ confirmedCopyList' = r.value
                   /\ taskQueue' = taskQueue \o << processTemplatesTask,
                                                   copyWorkspaceContractsTask(r.value) >>
                   /\ configBuilder' = [configBuilder EXCEPT !.contracts =
                                            addContracts(@, r.value.contracts)]
                   /\ pc' = "manifests"
                   /\ UNCHANGED error
    /\ UNCHANGED <<state, idx, inflight, trace, candidatesList, disk, banner, fs, pending, arg, ret>>

\* convert(): the root Cargo.toml, the workspace files and package.json
ConvertManifests ==
    /\ pc = "manifests"
    /\ \E rootFile \in RootFiles :
          LET hasPJson == fs.packageJson    \* pathExists(<existing project>/package.json)
          IN  IF rootFile.file = "malformed"
              THEN /\ Throw("RootManifestParseError")
                   /\ UNCHANGED taskQueue
              ELSE /\ taskQueue' = taskQueue
                        \o << writeCargoTomlTask(rootTomlOf(rootFile)),
                              copyWorkspaceFilesTask >>
                        \o (IF hasPJson THEN <<mergePackageJsonTask>> ELSE <<>>)
                   /\ pc' = "plan"
                   /\ UNCHANGED error
    /\ candidatesList' = NoList       \* convert() is over, its local is gone
    /\ UNCHANGED <<state, idx, inflight, trace, configBuilder,
                   confirmedCopyList, disk, banner, fs, pending, arg, ret>>

\* mutant: the config task is pushed before the node prompt
restTasksConfigEarly(swankyNodeFlag, useSwankyNode) ==
    << installDepsTask, gitInitTask, writeConfigTask >>
    \o (IF ~swankyNodeFlag /\ useSwankyNode THEN <<downloadNodeTask>> ELSE <<>>)

\* mutant: git is initialised before the dependencies are installed
restTasksGitFirst(swankyNodeFlag, useSwankyNode) ==
    << gitInitTask, installDepsTask >>
    \o (IF ~swankyNodeFlag /\ useSwankyNode THEN <<downloadNodeTask>> ELSE <<>>)
    \o << writeConfigTask >>

\* run(): the tasks pushed after generate() / convert(), in push order
restTasks(swankyNodeFlag, useSwankyNode) ==
    << installDepsTask, gitInitTask >>
    \o (IF ~swankyNodeFlag /\ useSwankyNode THEN <<downloadNodeTask>> ELSE <<>>)
    \o << writeConfigTask >>

\* the forEach over the contracts: every callback is started at once and
\* nothing awaits the promise it returns; a callback has the two directories
\* of its contract to make
forEachContract(contracts) == [c \in DOMAIN contracts |-> <<"artifacts", "tests">>]

\* run(): the tasks queued after generate() / convert(), the accounts and
\* the forEach over the contracts
PlanRest ==
    /\ pc = "plan"
    /\ \E swankyNodeFlag \in BOOLEAN, useSwankyNode \in BOOLEAN :
          taskQueue' = taskQueue \o restTasks(swankyNodeFlag, useSwankyNode)
    /\ configBuilder' = [configBuilder EXCEPT !.accounts = <<"alice", "bob">>]
    /\ pending' = forEachContract(configBuilder.contracts)
    /\ pc' = "loop"
    /\ state' = "Running"
    /\ UNCHANGED <<error, idx, inflight, trace, candidatesList, confirmedCopyList,
                   disk, banner, fs, arg, ret>>

\* a forEach callback runs to its end: ensureDir has made artifacts/<contract>,
\* then tests/<contract> (ensureDir is taken to succeed; the two directories
\* of one contract are made one after the other by the same callback and no
\* other step reads them, so they appear in one step). A completion is
\* delivered only while run() is suspended: at the await of a task's
\* operation, or when run() is over; between the end of one task and the
\* start of the next the loop does not yield, and a process that has exited
\* resolves nothing.
EnsureDirResolves ==
    /\ state \in {"Running", "Completed"}
    /\ inflight \/ pc # "loop"
    /\ \E contractName \in DOMAIN pending :
          /\ disk' = [disk EXCEPT !.dirs = @ \cup
                          {<<pending[contractName][k], contractName>> :
                               k \in DOMAIN pending[contractName]}]
          /\ pending' = [c \in (DOMAIN pending) \ {contractName} |-> pending[c]]
    /\ UNCHANGED <<pc, state, error, taskQueue, idx, inflight, trace, configBuilder,
                   candidatesList, confirmedCopyList, banner, fs, arg, ret>>

\* the loop calls runCommand for the task at idx
TaskStart ==
    /\ pc = "loop"
    /\ ~inflight
    /\ idx <= Len(taskQueue)
    /\ inflight' = TRUE
    /\ trace' = Append(trace, Event("start", idx, taskQueue[idx].task))
    /\ UNCHANGED <<pc, state, error, taskQueue, idx, configBuilder, candidatesList,
                   confirmedCopyList, disk, banner, fs, pending, arg, ret>>

\* the operation resolves; the callback, then the next iteration
TaskSucceed ==
    /\ pc = "loop"
    /\ inflight
    /\ LET t == taskQueue[idx] IN
       \E result \in TaskResults(t.task), existingPJson \in ExistingPJsons :
          /\ disk' = taskEffect(t, disk, configBuilder, existingPJson)
          /\ IF callbackRuns(t, result)
             THEN /\ configBuilder' = callbackEffect(t, result, configBuilder)
                  /\ trace' = trace \o << Event("ok", idx, result), Event("cb", idx, result) >>
             ELSE /\ UNCHANGED configBuilder
                  /\ trace' = Append(trace, Event("ok", idx, result))
    /\ inflight' = FALSE
    /\ idx' = nextTask(idx)
    /\ UNCHANGED <<pc, state, error, taskQueue, candidatesList, confirmedCopyList,
                   banner, fs, pending, arg, ret>>

\* mutant: the loop catches the error of every task and goes on
TaskFailSwallowed ==
    /\ pc = "loop"
    /\ inflight
    /\ trace' = Append(trace, Event("fail", idx, Undefined))
    /\ inflight' = FALSE
    /\ idx' = nextTask(idx)
    /\ UNCHANGED <<pc, state, error, taskQueue, configBuilder, candidatesList,
                   confirmedCopyList, disk, banner, fs, pending, arg, ret>>

\* the operation throws: runCommand ends the run, or the loop goes on
TaskFail ==
    /\ pc = "loop"
    /\ inflight
    /\ trace' = Append(trace, Event("fail", idx, Undefined))
    /\ inflight' = FALSE
    /\ IF runCommandExits(taskQueue[idx].shouldExitOnError)
       THEN /\ state' = "Aborted"
            /\ Throw("TaskError")
            /\ UNCHANGED idx
       ELSE /\ idx' = nextTask(idx)
            /\ UNCHANGED <<pc, state, error>>
    /\ UNCHANGED <<taskQueue, configBuilder, candidatesList, confirmedCopyList,
                   disk, banner, fs, pending, arg, ret>>

\* the loop is over: the success banner
Finish ==
    /\ pc = "loop"
    /\ ~inflight
    /\ idx > Len(taskQueue)
    /\ banner' = TRUE
    /\ state' = "Completed"
    /\ pc' = "end"
    /\ UNCHANGED <<error, taskQueue, idx, inflight, trace, configBuilder,
                   candidatesList, confirmedCopyList, disk, fs, pending, arg, ret>>

Next ==
    \/ CheckProjectPath
    \/ Generate
    \/ ConvertStat
    \/ Discover
    \/ Confirm
    \/ ConvertManifests
    \/ PlanRest
    \/ TaskStart
    \/ TaskSucceed
    \/ TaskFail
    \/ Finish
    \/ EnsureDirResolves

Spec == Init /\ [][Next]_vars

--------------------------------------------------------------------------
\* Properties of the task queue

\* a task that ends the run when it fails: shouldExitOnError true or unset
FatalOnError(t) == t.shouldExitOnError \in {"true", Undefined}

TaskAt(p) == taskQueue[trace[p].i]

FatalFailAt(p) == trace[p].ev = "fail" /\ FatalOnError(TaskAt(p))

NonFatalFailAt(p) == trace[p].ev = "fail" /\ ~FatalOnError(TaskAt(p))

Started(j) == \E p \in 1..Len(trace) : trace[p].ev = "start" /\ trace[p].i = j

\* C1: the tasks are invoked in the order they were enqueued, each at most
\* once; an operation starts only when the previous task's operation and
\* callback are over; a run without a fatal failure invokes every task once.
C1_FifoEachOnce ==
    LET starts == SelectSeq(trace, LAMBDA e : e.ev = "start")
    IN  /\ \A k \in 1..Len(starts) :
              /\ starts[k].i = k
              /\ k <= Len(taskQueue)
              /\ starts[k].v = taskQueue[k].task
        /\ \A p \in 1..Len(trace) :
              trace[p].ev = "start" =>
                  IF p = 1 THEN trace[p].i = 1
                  ELSE LET q == trace[p - 1]
                       IN  /\ q.i = trace[p].i - 1
                           /\ \/ q.ev \in {"cb", "fail"}
                              \/ q.ev = "ok" /\ ~callbackRuns(taskQueue[q.i], q.v)
        /\ (pc = "end" /\ error = "none") => Len(starts) = Len(taskQueue)

C1_Witness ==
    /\ state = "Completed"
    /\ Len(taskQueue) >= 9
    /\ \E p \in 1..Len(trace) : trace[p].ev = "fail"
    /\ \E p \in 1..Len(trace) : trace[p].ev = "cb"

\* C2: when a task with shouldExitOnError true or unset fails, the run is
\* Aborted and stays so: nothing happens after the failure, no later task is
\* invoked, there is no banner, and what completed tasks did stays on disk.
C2_FatalFailureAborts ==
    \A p \in 1..Len(trace) :
        FatalFailAt(p) =>
            /\ state = "Aborted"
            /\ pc = "end"
            /\ ~inflight
            /\ p = Len(trace)
            /\ ~banner
            /\ \A j \in (trace[p].i + 1)..Len(taskQueue) : ~Started(j)
            /\ \A q \in 1..(p - 1) : trace[q].ev = "ok" => TaskAt(q).task \in disk.done

C2_Witness ==
    /\ state = "Aborted"
    /\ FatalFailAt(Len(trace))
    /\ trace[Len(trace)].i < Len(taskQueue)
    /\ "copyWorkspaceContracts" \in disk.done
    /\ disk.cargoToml # NoToml

\* C3 as stated: when a non-fatal task fails, every later task is executed
\* and the run ends Completed with the banner.
C3_NonFatalAlwaysCompletes ==
    \A p \in 1..Len(trace) :
        (NonFatalFailAt(p) /\ pc = "end") =>
            /\ state = "Completed"
            /\ banner
            /\ \A j \in (trace[p].i + 1)..Len(taskQueue) : Started(j)

\* C3 amended: the failure of a non-fatal task (of the dependency install in
\* particular) does not abort the run: the next task is started, and unless
\* a fatal task fails later every later task is executed in order and the
\* run ends Completed with the banner.
C3_NonFatalFailureContinues ==
    \A p \in 1..Len(trace) :
        (trace[p].ev = "fail"
            /\ (~FatalOnError(TaskAt(p)) \/ TaskAt(p).task = "installDeps")) =>
            LET i == trace[p].i
                laterFatal == \E q \in (p + 1)..Len(trace) : FatalFailAt(q)
            IN  /\ i < Len(taskQueue)
                /\ p = Len(trace) => (state = "Running" /\ pc = "loop" /\ idx = i + 1)
                /\ p < Len(trace) =>
                       trace[p + 1] = Event("start", i + 1, taskQueue[i + 1].task)
                /\ state = "Aborted" => laterFatal
                /\ (pc = "end" /\ ~laterFatal) =>
                       /\ state = "Completed"
                       /\ banner
                       /\ \A j \in (i + 1)..Len(taskQueue) : Started(j)
                /\ TaskAt(p).task = "installDeps" =>
                       taskQueue[i + 1].task = "gitInit"

C3_Witness ==
    /\ state = "Completed"
    /\ banner
    /\ \E p \in 1..Len(trace) : NonFatalFailAt(p) /\ TaskAt(p).task = "installDeps"
    /\ \E j \in 1..Len(taskQueue) : taskQueue[j].task = "downloadNode" /\ Started(j)

\* C4 as stated: a registered callback is invoked once, with the result,
\* after every successful operation whatever the result is, before the next
\* task; it is not invoked when the operation fails.
C4_CallbackAfterEverySuccess ==
    /\ \A p \in 1..Len(trace) :
          (trace[p].ev = "ok" /\ TaskAt(p).callback # Undefined) =>
              /\ p < Len(trace)
              /\ trace[p + 1] = Event("cb", trace[p].i, trace[p].v)
    /\ \A p \in 1..Len(trace) :
          trace[p].ev = "cb" =>
              /\ p > 1
              /\ trace[p - 1] = Event("ok", trace[p].i, trace[p].v)

\* C5: a Completed run has written the configuration once, by the last task
\* of the queue, after every other task and with every contract entry in
\* it; a run that is Aborted or failed has not written it.
C5_ConfigWrittenOnceLast ==
    /\ disk.configWrites <= 1
    /\ Cardinality({j \in 1..Len(taskQueue) : taskQueue[j].task = "writeConfig"}) <= 1
    /\ disk.configWrites = 1 =>
          /\ taskQueue[Len(taskQueue)].task = "writeConfig"
          /\ trace[Len(trace)] = Event("ok", Len(taskQueue), Undefined)
          /\ \A j \in 1..Len(taskQueue) : Started(j)
          /\ disk.config = configBuilder
          /\ {e.name : e \in Range(confirmedCopyList.contracts)}
                 \subseteq DOMAIN disk.config.contracts
    /\ state = "Completed" => disk.configWrites = 1
    /\ (state = "Aborted" \/ error # "none") =>
          (disk.configWrites = 0 /\ disk.config = NoFile)

C5_Witness ==
    /\ state = "Completed"
    /\ disk.configWrites = 1
    /\ disk.config.node.localPath \in NodePaths
    /\ Cardinality(DOMAIN disk.config.contracts) = 2

\* C6: the Cargo.toml written to the new project has workspace.members equal
\* to ["contracts/*"], whatever the existing project's root manifest is.
C6_WorkspaceMembers ==
    /\ \A j \in 1..Len(taskQueue) :
          taskQueue[j].task = "writeCargoToml" =>
              /\ "workspace" \in DOMAIN taskQueue[j].args
              /\ "members" \in DOMAIN taskQueue[j].args["workspace"]
              /\ taskQueue[j].args["workspace"]["members"] = <<"contracts/*">>
    /\ "writeCargoToml" \in disk.done =>
          /\ "workspace" \in disk.cargoToml.tables
          /\ {l \in disk.cargoToml.lines : l[1] = "workspace" /\ l[2] = "members"}
                 = {<<"workspace", "members", <<"contracts/*">> >>}

C6_Witness ==
    /\ "writeCargoToml" \in disk.done
    /\ "package" \in disk.cargoToml.tables

\* C10: a manifest that does not parse, in a contracts or crates directory
\* being resolved, fails the conversion at once: no module name and no
\* config entry come from it and no queued task is executed.
C10_MalformedManifestFailsFast ==
    /\ error = "ManifestParseError" =>
          /\ pc = "end"
          /\ state = "Idle"
          /\ trace = <<>>
          /\ ~inflight
          /\ disk = EmptyDisk
          /\ ~banner
          /\ DOMAIN configBuilder.contracts = {}
          /\ confirmedCopyList = NoList
    /\ \A g \in {"contracts", "crates"} :
          \A i \in 1..Len(confirmedCopyList[g]) :
              LET entry == confirmedCopyList[g][i]
              IN  ~(entry.isDir /\ fs.manifests[entry.path].file = "malformed")

C10_Witness ==
    /\ error = "ManifestParseError"
    /\ candidatesList.crates # <<>>
    /\ Len(taskQueue) = 1

--------------------------------------------------------------------------
\* Properties of a conversion run

Groups == {"contracts", "crates", "tests"}

\* the paths of a group of a candidate set
PathsOf(set, g) == {set[g][i].path : i \in 1..Len(set[g])}

\* within each group no path twice, and no path in two groups
DistinctPaths(set) ==
    /\ \A g \in Groups :
          \A i, j \in 1..Len(set[g]) : i # j => set[g][i].path # set[g][j].path
    /\ \A g, h \in Groups : g # h => PathsOf(set, g) \cap PathsOf(set, h) = {}

\* C11: whatever directories the user chooses, the candidates handed to the
\* gate and the confirmed set handed to the materializer have pairwise
\* distinct paths within each group and no path in two groups.
C11_DistinctPaths ==
    /\ DistinctPaths(candidatesList)
    /\ DistinctPaths(confirmedCopyList)
    /\ \A j \in 1..Len(taskQueue) :
          taskQueue[j].task = "copyWorkspaceContracts" => DistinctPaths(taskQueue[j].args)

\* C13: the resolver runs before the gate and on every discovered
\* candidate: the entries of contracts and crates the gate presents carry
\* their resolved moduleName, and once the gate is passed no discovered
\* candidate directory, confirmed or not, has a manifest that does not parse.
C13_ResolverBeforeGate ==
    /\ pc = "gate" =>
          \A g \in {"contracts", "crates"} :
              \A i \in 1..Len(candidatesList[g]) :
                  LET e == candidatesList[g][i]
                  IN  /\ "moduleName" \in DOMAIN e
                      /\ e.moduleName = extendedEntry(e, fs.manifests).moduleName
    /\ pc = "manifests" =>
          \A g \in {"contracts", "crates"} :
              \A i \in 1..Len(candidatesList[g]) :
                  LET e == candidatesList[g][i]
                  IN  ~(e.isDir /\ fs.manifests[e.path].file = "malformed")

\* C14: a queued task starts only when the project path was absent or an
\* empty directory when init began; for a directory that is not empty and
\* for a path that is no directory, init fails with InputError before any
\* task is enqueued or executed and nothing is written.
C14_ProjectPathGuard ==
    /\ trace # <<>> => fs.projectPath \in {"ENOENT", "emptyDir"}
    /\ (pc # "start" /\ fs.projectPath \in {"nonEmptyDir", "file"}) =>
          /\ pc = "end"
          /\ error = "InputError"
          /\ taskQueue = <<>>
          /\ trace = <<>>
          /\ disk = EmptyDisk

\* C15: when the path given to --convert does not exist or is an empty
\* directory, convert fails with InputError at its first step, before any
\* prompt of the conversion; the run is then over with the template-copy
\* task still queued and never started, and nothing made or written in the
\* project directory.
C15_ConvertPathChecked ==
    /\ [](error = "InputError" =>
             /\ fs.convertPath \in {"ENOENT", "emptyDir"}
             /\ pc = "end"
             /\ state = "Idle"
             /\ taskQueue = <<copyCommonTemplateFilesTask>>
             /\ trace = <<>>
             /\ ~inflight
             /\ disk = EmptyDisk
             /\ pending = NoPending
             /\ candidatesList = NoList
             /\ confirmedCopyList = NoList
             /\ configBuilder = InitialConfig
             /\ ~banner)
    /\ [][(pc = "convert" /\ fs.convertPath \in {"ENOENT", "emptyDir"}) =>
             (pc' = "end" /\ error' = "InputError")]_vars

C15_Witness ==
    /\ error = "InputError"
    /\ fs.convertPath = "emptyDir"
    /\ fs.projectPath = "emptyDir"
    /\ Len(taskQueue) = 1

\* C16: no operation that changes the project directory is in flight while
\* a queued task runs: every ensureDir started before the queue has resolved
\* before the first queued task starts.
C16_NothingInFlightWithTasks ==
    /\ inflight => DOMAIN pending = {}
    /\ trace # <<>> => DOMAIN pending = {}

\* positions of the download task in the queue
DownloadAt == {j \in 1..Len(taskQueue) : taskQueue[j].task = "downloadNode"}

\* C17: node.localPath gets its value only from the callback of the download
\* task: the written configuration has the path the download returned when
\* a download task was queued, and the empty string when none was; the
\* config task carries no configuration of its own, it writes the
\* configuration as it is when the task runs.
C17_LocalPathThroughCallback ==
    /\ configBuilder.node.localPath # "" =>
          \E p \in 1..Len(trace) :
              /\ trace[p].ev = "cb"
              /\ TaskAt(p).task = "downloadNode"
              /\ trace[p].v = configBuilder.node.localPath
    /\ \A j \in 1..Len(taskQueue) :
          taskQueue[j].task = "writeConfig" => taskQueue[j].args = <<>>
    /\ disk.configWrites = 1 =>
          /\ disk.config.node = configBuilder.node
          /\ IF DownloadAt = {}
             THEN disk.config.node.localPath = ""
             ELSE \A j \in DownloadAt :
                     \E p \in 1..Len(trace) :
                         /\ trace[p].ev = "ok"
                         /\ trace[p].i = j
                         /\ trace[p].v \in NodePaths
                         /\ disk.config.node.localPath = trace[p].v

C17_Witness ==
    /\ state = "Completed"
    /\ DownloadAt # {}
    /\ taskQueue[2].task = "checkCliDependencies"
    /\ disk.config.node.localPath = "bin/swanky-node"

\* the names of the queued tasks, in order
QueueNames == [j \in 1..Len(taskQueue) |-> taskQueue[j].task]

\* a conversion that has passed the gate
Converting == Len(taskQueue) >= 2 /\ taskQueue[2].task = "processTemplates"

ConversionHead ==
    << "copyCommonTemplateFiles", "processTemplates", "copyWorkspaceContracts" >>

ConversionFiles(hasPJson) ==
    << "writeCargoToml", "copyWorkspaceFiles" >>
    \o (IF hasPJson THEN <<"mergePackageJson">> ELSE <<>>)

ConversionRest(download) ==
    << "installDeps", "gitInit" >>
    \o (IF download THEN <<"downloadNode">> ELSE <<>>)
    \o << "writeConfig" >>

\* the event of task j with kind ev is in the trace before position p
Before(p, ev, j) == \E q \in 1..(p - 1) : trace[q].ev = ev /\ trace[q].i = j

\* C20: the queue of a conversion is: copy common template files, process
\* templates, copy existing project files, write Cargo.toml, copy workspace
\* files, merge package.json (exactly when the existing project has one),
\* install dependencies, init git, download node (at most once, here),
\* write config; the merge starts only after the template copy and the
\* template processing have succeeded, and the install only after the merge.
C20_ConversionQueueOrder ==
    /\ (Converting /\ pc = "manifests") => QueueNames = ConversionHead
    /\ (Converting /\ pc = "plan") =>
          QueueNames = ConversionHead \o ConversionFiles(fs.packageJson)
    /\ (Converting /\ state # "Idle") =>
          \E download \in BOOLEAN :
              QueueNames = ConversionHead \o ConversionFiles(fs.packageJson)
                               \o ConversionRest(download)
    /\ \A p \in 1..Len(trace) :
          (Converting /\ trace[p].ev = "start") =>
              /\ TaskAt(p).task = "mergePackageJson" =>
                    /\ fs.packageJson
                    /\ Before(p, "ok", 1)
                    /\ Before(p, "ok", 2)
                    /\ \A q \in 1..(p - 1) : TaskAt(q).task # "installDeps"
              /\ (TaskAt(p).task = "installDeps" /\ fs.packageJson) =>
                    /\ taskQueue[trace[p].i - 1].task = "mergePackageJson"
                    /\ Before(p, "ok", trace[p].i - 1)

C20_Witness ==
    /\ state = "Completed"
    /\ Converting
    /\ Len(taskQueue) = 10
    /\ "mergePackageJson" \in disk.done
    /\ "downloadNode" \in disk.done

--------------------------------------------------------------------------
\* The functions on their own: the input is drawn in the initial state and
\* one action applies the function

PlainFs ==
    [manifests |-> NoManifests, projectPath |-> "ENOENT",
     convertPath |-> "nonEmptyDir", packageJson |-> FALSE]

FnInit ==
    /\ RunInit
    /\ fs = PlainFs
    /\ ret = NotRun

\* package.json values: scalars, arrays of scalars, mappings of those, and a
\* top-level object with one key
PJsonLeaves ==
    {[s |-> n] : n \in Scalars} \cup {[a |-> q] : q \in SeqsUpTo(Scalars, MaxArrLen)}

PJsonMaps == {[m |-> f] : f \in [Keys -> PJsonLeaves \cup {Absent}]}

PJsonTops ==
    {[m |-> [k \in Keys |-> IF k = "k1" THEN v ELSE Absent]] :
        v \in PJsonLeaves \cup PJsonMaps \cup {Absent}}

InitMerge ==
    /\ FnInit
    /\ arg \in {[fn |-> "merge", object |-> t, source |-> e] :
                    t \in PJsonTops, e \in PJsonTops}

\* mergedJson = merge(templatePJson, existingPJson)
ApplyMerge ==
    /\ arg.fn = "merge"
    /\ ~ret.done
    /\ ret' = [done |-> TRUE, value |-> merge(arg.object, arg.source)]
    /\ UNCHANGED <<runVars, arg>>

NextMerge == ApplyMerge

SpecMerge == InitMerge /\ [][NextMerge]_vars

\* candidate groups: entries of the existing project, each path once in a group
PoolLists ==
    {q \in SeqsUpTo(SrcEntries \ {PathEntryOf("tests", SrcListing["tests"][1])}, MaxGroupLen) :
        \A i, j \in 1..Len(q) : i # j => q[i] # q[j]}

InitGate ==
    /\ FnInit
    /\ arg \in {[fn |-> "confirmCopyList",
                 candidates |-> [contracts |-> c, crates |-> r, tests |-> t]] :
                    c \in PoolLists, r \in PoolLists, t \in PoolLists}

\* confirmCopyList(candidatesList) with the user's answer
ApplyConfirm ==
    /\ arg.fn = "confirmCopyList"
    /\ ~ret.done
    /\ \E checked \in SUBSET (1..Len(gateChoices(arg.candidates))) :
          ret' = [done |-> TRUE, checked |-> checked,
                  value |-> confirmCopyList(arg.candidates, checked)]
    /\ UNCHANGED <<runVars, arg>>

NextGate == ApplyConfirm

SpecGate == InitGate /\ [][NextGate]_vars

\* what the gate returns: entries that carry their group
GroupedLists(g) ==
    {[i \in 1..Len(q) |-> withGroup(q[i], g)] : q \in PoolLists}

\* for the resolver a file may also stand before a manifest (a link to a
\* directory is no directory for its dirent)
PoolManifests ==
    [{e.path : e \in SrcEntries \ {PathEntryOf("tests", SrcListing["tests"][1])}}
        -> ManifestKinds]

InitResolve ==
    /\ FnInit
    /\ arg \in {[fn |-> "detectModuleNames",
                 copyList |-> [contracts |-> c, crates |-> r, tests |-> t],
                 manifests |-> f] :
                    c \in GroupedLists("contracts"), r \in GroupedLists("crates"),
                    t \in {<<>>, <<withGroup(PathEntryOf("tests", SrcListing["tests"][1]),
                                             "tests")>>},
                    f \in PoolManifests}

\* detectModuleNames(copyList)
ApplyDetect ==
    /\ arg.fn = "detectModuleNames"
    /\ ~ret.done
    /\ LET r == detectModuleNames(arg.copyList, arg.manifests)
       IN  ret' = [done |-> TRUE, threw |-> r.threw, value |-> r.value]
    /\ UNCHANGED <<runVars, arg>>

NextResolve == ApplyDetect

SpecResolve == InitResolve /\ [][NextResolve]_vars

\* an entry of a second contracts directory of the existing project, named
\* as an entry of the first
TwinEntry ==
    [name |-> "flipper", path |-> resolve(resolve(SrcRoot, "examples"), "flipper"),
     isDir |-> TRUE]

\* confirmed groups: entries of the existing project, each path once in a group
TwinLists ==
    {q \in SeqsUpTo((SrcEntries \ {PathEntryOf("tests", SrcListing["tests"][1])})
                        \cup {TwinEntry}, MaxGroupLen) :
        \A i, j \in 1..Len(q) : i # j => q[i] # q[j]}

CopyStart == [done |-> FALSE, threw |-> FALSE, tree |-> EmptyObj, log |-> <<>>]

InitCopy ==
    /\ RunInit
    /\ fs = PlainFs
    /\ arg \in {[fn |-> "copyWorkspaceContracts",
                 copyList |-> [contracts |-> c, crates |-> r, tests |-> t]] :
                    c \in TwinLists, r \in TwinLists,
                    t \in {<<>>, <<PathEntryOf("tests", SrcListing["tests"][1])>>}}
    /\ ret = CopyStart

\* copyWorkspaceContracts: the next ensureDir or copy resolves; the function
\* returns after the last
CopyOp ==
    /\ arg.fn = "copyWorkspaceContracts"
    /\ ~ret.done
    /\ LET ops == copyOps(arg.copyList)
           o   == ops[Len(ret.log) + 1]
       IN  ret' = [done |-> Len(ret.log) + 1 = Len(ops), threw |-> FALSE,
                   tree |-> opEffect(ret.tree, o), log |-> Append(ret.log, o)]
    /\ UNCHANGED <<runVars, arg>>

\* the next ensureDir or copy rejects, and copyWorkspaceContracts with it
CopyOpFails ==
    /\ arg.fn = "copyWorkspaceContracts"
    /\ ~ret.done
    /\ ret' = [ret EXCEPT !.done = TRUE, !.threw = TRUE]
    /\ UNCHANGED <<runVars, arg>>

NextCopy == CopyOp \/ CopyOpFails

SpecCopy == InitCopy /\ [][NextCopy]_vars

\* the manifests of the directories: none, or one that names a package
TwinManifests ==
    [{e.path : e \in (SrcEntries \ {PathEntryOf("tests", SrcListing["tests"][1])})
                        \cup {TwinEntry}}
        -> {NoManifest, Manifest("flipper_pkg")}]

InitPlan ==
    /\ FnInit
    /\ arg \in {[fn |-> "planContracts",
                 candidates |-> [contracts |-> c, crates |-> r, tests |-> t],
                 manifests |-> f] :
                    c \in TwinLists,
                    r \in {<<>>, <<PathEntryOf("crates", SrcListing["crates"][1])>>},
                    t \in {<<>>, <<PathEntryOf("tests", SrcListing["tests"][1])>>},
                    f \in TwinManifests}

\* convert(): the gate, the module names and the contracts of the configuration
PlanContracts ==
    /\ arg.fn = "planContracts"
    /\ ~ret.done
    /\ \E checked \in SUBSET (1..Len(gateChoices(arg.candidates))) :
          LET r == detectModuleNames(confirmCopyList(arg.candidates, checked),
                                     arg.manifests)
          IN  ret' = [done |-> TRUE, checked |-> checked, threw |-> r.threw,
                      confirmed |-> r.value,
                      contracts |-> IF r.threw THEN InitialConfig.contracts
                                    ELSE addContracts(InitialConfig.contracts,
                                                      r.value.contracts)]
    /\ UNCHANGED <<runVars, arg>>

NextPlan == PlanContracts

SpecPlan == InitPlan /\ [][NextPlan]_vars

--------------------------------------------------------------------------
\* The choice of the tests directory

YesNo(b) == IF b THEN "yes" ELSE "no"

InitTests ==
    /\ FnInit
    /\ arg \in {[fn |-> "detectTests", existing |-> x] : x \in SUBSET Range(testDirNames)}

\* detectTests(): the directory found, the two questions and the path
\* prompt; ret keeps the answers that were asked for
DetectTests ==
    /\ arg.fn = "detectTests"
    /\ ~ret.done
    /\ "testDir" \notin DOMAIN ret
    /\ \E shouldUseDetectedTestDir \in BOOLEAN,
          shouldInputTestDir \in BOOLEAN,
          manualTestDir \in getManualPaths("tests") :
          LET testDirDetected == firstExisting(arg.existing) # Undefined
              asked == inputAsked(testDirDetected, shouldUseDetectedTestDir)
          IN  ret' = [done |-> FALSE,
                      shouldUseDetectedTestDir |->
                          IF testDirDetected THEN YesNo(shouldUseDetectedTestDir)
                          ELSE Undefined,
                      shouldInputTestDir |->
                          IF asked THEN YesNo(shouldInputTestDir) ELSE Undefined,
                      manualTestDir |->
                          IF asked /\ shouldInputTestDir THEN manualTestDir ELSE <<>>,
                      testDir |-> detectTests(arg.existing, shouldUseDetectedTestDir,
                                              shouldInputTestDir, manualTestDir)]
    /\ UNCHANGED <<runVars, arg>>

\* convert(): candidatesList.tests
TestsCandidates ==
    /\ arg.fn = "detectTests"
    /\ ~ret.done
    /\ "testDir" \in DOMAIN ret
    /\ ret' = [ret EXCEPT !.done = TRUE] @@
              [tests |-> testsCandidates(ret.testDir, arg.existing)]
    /\ UNCHANGED <<runVars, arg>>

NextTests == DetectTests \/ TestsCandidates

SpecTests == InitTests /\ [][NextTests]_vars

--------------------------------------------------------------------------
\* The typegen command

\* what can be on disk for a contract: its directory and its two artifacts
contractPath(name) == <<"contracts", name>>

artifactPaths(name) ==
    {<<"artifacts", name, "metadata.json">>, <<"artifacts", name, "bundle.contract">>}

TypegenFiles == UNION {{contractPath(n)} \cup artifactPaths(n) : n \in ContractNames}

\* contract.pathExists()
pathExists(contract, files) == contractPath(contract.name) \in files

\* contract.artifactsExist()
artifactsExist(contract, files) ==
    LET missingPaths == artifactPaths(contract.name) \ files
    IN  [result |-> missingPaths = {}, missingPaths |-> missingPaths]

\* the value of a key an object does not have
NoRecord == [undefined |-> TRUE]

\* this.swankyConfig.contracts[args.contractName]
contractRecordOf(swankyConfig, contractName) ==
    IF contractName \in DOMAIN swankyConfig.contracts
    THEN swankyConfig.contracts[contractName]
    ELSE NoRecord

TypegenConfigs ==
    {[contracts |-> [n \in N |-> [name |-> n, moduleName |-> snakeCase(n),
                                  deployments |-> <<>>]]] : N \in SUBSET ContractNames}

TypegenStart ==
    [done |-> FALSE, at |-> "record", checks |-> <<>>, error |-> "none",
     generated |-> FALSE]

InitTypegen ==
    /\ RunInit
    /\ fs = PlainFs
    /\ arg \in {[fn |-> "typegen", contractName |-> n, swankyConfig |-> c, files |-> f] :
                    n \in ContractNames, c \in TypegenConfigs, f \in SUBSET TypegenFiles}
    /\ ret = TypegenStart

\* the command rejects with error e
TypegenThrow(e) == [ret EXCEPT !.done = TRUE, !.at = "end", !.error = e]

\* run(): the record of the contract in swanky.config.json
TypegenRecord ==
    /\ arg.fn = "typegen"
    /\ ret.at = "record"
    /\ LET contractRecord == contractRecordOf(arg.swankyConfig, arg.contractName)
           checked == [ret EXCEPT !.checks = Append(@, "record")]
       IN  ret' = IF contractRecord = NoRecord
                  THEN [TypegenThrow("ConfigError") EXCEPT !.checks = checked.checks]
                  ELSE [checked EXCEPT !.at = "path"]
    /\ UNCHANGED <<runVars, arg>>

\* run(): new Contract(contractRecord) and contract.pathExists()
TypegenPath ==
    /\ arg.fn = "typegen"
    /\ ret.at = "path"
    /\ LET contract == contractRecordOf(arg.swankyConfig, arg.contractName)
           checked  == [ret EXCEPT !.checks = Append(@, "path")]
       IN  ret' = IF ~pathExists(contract, arg.files)
                  THEN [TypegenThrow("FileError") EXCEPT !.checks = checked.checks]
                  ELSE [checked EXCEPT !.at = "artifacts"]
    /\ UNCHANGED <<runVars, arg>>

\* mutant: the artifacts are not looked at
TypegenArtifactsUnchecked ==
    /\ arg.fn = "typegen"
    /\ ret.at = "artifacts"
    /\ ret' = [ret EXCEPT !.checks = Append(@, "artifacts"), !.at = "generate"]
    /\ UNCHANGED <<runVars, arg>>

\* run(): contract.artifactsExist()
TypegenArtifacts ==
    /\ arg.fn = "typegen"
    /\ ret.at = "artifacts"
    /\ LET contract == contractRecordOf(arg.swankyConfig, arg.contractName)
           artifactsCheck == artifactsExist(contract, arg.files)
           checked  == [ret EXCEPT !.checks = Append(@, "artifacts")]
       IN  ret' = IF ~artifactsCheck.result
                  THEN [TypegenThrow("FileError") EXCEPT !.checks = checked.checks]
                  ELSE [checked EXCEPT !.at = "generate"]
    /\ UNCHANGED <<runVars, arg>>

\* run(): runCommand calls generateTypes(contract.name), which resolves or
\* rejects
TypegenGenerate ==
    /\ arg.fn = "typegen"
    /\ ret.at = "generate"
    /\ \E outcome \in {"none", "TaskError"} :
          ret' = [ret EXCEPT !.done = TRUE, !.at = "end", !.generated = TRUE,
                             !.error = outcome]
    /\ UNCHANGED <<runVars, arg>>

NextTypegen == TypegenRecord \/ TypegenPath \/ TypegenArtifacts \/ TypegenGenerate

SpecTypegen == InitTypegen /\ [][NextTypegen]_vars

--------------------------------------------------------------------------
\* The clear command

\* tests/<contractName>/artifacts
testArtifacts(contractName) == <<"tests", contractName, "artifacts">>

\* the directories the command removes
ClearDirs == {<<"artifacts">>, <<"target">>} \cup {testArtifacts(n) : n \in ContractNames}

\* `rm -r <path>`: a path that is missing makes rm fail; one that is there is
\* removed, or rm fails for another reason
rmOutcomes(path, dirs) == IF path \in dirs THEN {"ok", "fail"} ELSE {"fail"}

\* dirs: what is on disk; log: the messages reported; running: the contracts
\* whose rm was started and has not exited; failed: those whose rm failed
ClearStart(dirs) ==
    [done |-> FALSE, at |-> "artifacts", dirs |-> dirs, log |-> <<>>,
     running |-> {}, failed |-> {}, error |-> "none"]

InitClear ==
    /\ RunInit
    /\ fs = PlainFs
    /\ arg \in {[fn |-> "clear", swankyConfig |-> c] : c \in TypegenConfigs}
    /\ ret \in {ClearStart(d) : d \in SUBSET ClearDirs}

\* await runCommand(() => execaCommand(`rm -r <path>`), ..., successMessage):
\* the removal is over when run() goes on; a failure ends the command
awaitedRm(r, path, successMessage, next, outcome) ==
    IF outcome = "ok"
    THEN [r EXCEPT !.dirs = @ \ {path}, !.log = Append(@, successMessage), !.at = next]
    ELSE IF runCommandExits(Undefined)
    THEN [r EXCEPT !.done = TRUE, !.at = "end", !.error = "TaskError"]
    ELSE [r EXCEPT !.at = next]

\* run(): the artifacts directory
ClearArtifacts ==
    /\ arg.fn = "clear"
    /\ ret.at = "artifacts"
    /\ \E outcome \in rmOutcomes(<<"artifacts">>, ret.dirs) :
          ret' = awaitedRm(ret, <<"artifacts">>, "Cleared artifacts directory",
                           "target", outcome)
    /\ UNCHANGED <<runVars, arg>>

\* run(): the cargo target directory
ClearTarget ==
    /\ arg.fn = "clear"
    /\ ret.at = "target"
    /\ \E outcome \in rmOutcomes(<<"target">>, ret.dirs) :
          ret' = awaitedRm(ret, <<"target">>, "Cleared cargo target directory",
                           "tests", outcome)
    /\ UNCHANGED <<runVars, arg>>

\* run(): the loop starts one rm for every contract name and keeps none of
\* the promises; succeed is called when the loop is over and run() returns
ClearTests ==
    /\ arg.fn = "clear"
    /\ ret.at = "tests"
    /\ LET contractNames == DOMAIN arg.swankyConfig.contracts
       IN  ret' = [ret EXCEPT !.running = contractNames,
                              !.log = Append(@, "Cleared test artifacts directories"),
                              !.done = TRUE, !.at = "end"]
    /\ UNCHANGED <<runVars, arg>>

\* an rm started by the loop exits: the directory is gone, or rm failed and
\* the rejection has no handler
RmExits ==
    /\ arg.fn = "clear"
    /\ \E contractName \in ret.running :
       \E outcome \in rmOutcomes(testArtifacts(contractName), ret.dirs) :
          ret' = IF outcome = "ok"
                 THEN [ret EXCEPT !.running = @ \ {contractName},
                                  !.dirs = @ \ {testArtifacts(contractName)}]
                 ELSE [ret EXCEPT !.running = @ \ {contractName},
                                  !.failed = @ \cup {contractName}]
    /\ UNCHANGED <<runVars, arg>>

NextClear == ClearArtifacts \/ ClearTarget \/ ClearTests \/ RmExits

SpecClear == InitClear /\ [][NextClear]_vars

--------------------------------------------------------------------------
\* Properties of the functions

\* C7 as stated: in the merged package.json a key of one side only keeps
\* its value, two mappings are merged key by key, and an external value that
\* is no mapping (a scalar or an array) replaces the template's value whole.
RECURSIVE MergedAsStated(_, _, _)
MergedAsStated(T, E, M) ==
    \A k \in Keys :
        LET t == T.m[k]
            e == E.m[k]
            r == M.m[k]
        IN  IF e = Absent THEN r = t
            ELSE IF t = Absent THEN r = e
            ELSE IF isMap(t) /\ isMap(e) THEN isMap(r) /\ MergedAsStated(t, e, r)
            ELSE IF ~isMap(e) THEN r = e
            ELSE TRUE

C7_ExternalValueReplaces ==
    ret.done => MergedAsStated(arg.object, arg.source, ret.value)

\* the entry without the group the gate attached
Strip(e) == [k \in (DOMAIN e) \ {"group"} |-> e[k]]

\* the k-th smallest element of a set of numbers
Kth(S, k) == CHOOSE i \in S : Cardinality({j \in S : j < i}) = k - 1

\* position of the first choice of a group, minus one
GateOffset(candidates, g) ==
    CASE g = "contracts" -> 0
      [] g = "crates"    -> Len(candidates.contracts)
      [] g = "tests"     -> Len(candidates.contracts) + Len(candidates.crates)

\* C8: the gate returns exactly the entries left checked: each once, in the
\* group it came from and in the order of the input; no other entry, and
\* what is unchecked in one group changes nothing in another.
C8_GateReturnsSelection ==
    ret.done =>
        \A g \in {"contracts", "crates", "tests"} :
            LET in  == arg.candidates[g]
                out == ret.value[g]
                sel == {i \in 1..Len(in) : GateOffset(arg.candidates, g) + i \in ret.checked}
            IN  /\ Len(out) = Cardinality(sel)
                /\ \A k \in 1..Len(out) :
                      /\ out[k].group = g
                      /\ Strip(out[k]) = in[Kth(sel, k)]

C8_Witness ==
    /\ ret.done
    /\ Len(arg.candidates.contracts) = 2
    /\ Len(ret.value.contracts) = 1
    /\ ret.value.contracts[1].name = arg.candidates.contracts[2].name
    /\ arg.candidates.crates = arg.candidates.contracts
    /\ Len(ret.value.crates) = 2
    /\ Len(arg.candidates.tests) = 1
    /\ Len(ret.value.tests) = 1

\* C9: the resolver returns a new set with as many entries in each group
\* and the tests group as it was; the moduleName of an entry of contracts or
\* crates is the manifest's package name when the entry is a directory with
\* a manifest that declares a (non-empty) name, and the last segment of the
\* entry's path in every other case.
C9_ModuleNames ==
    /\ (ret.done /\ ~ret.threw) =>
          /\ ret.value.tests = arg.copyList.tests
          /\ \A g \in {"contracts", "crates"} :
                /\ Len(ret.value[g]) = Len(arg.copyList[g])
                /\ \A i \in 1..Len(arg.copyList[g]) :
                      LET e == arg.copyList[g][i]
                          r == ret.value[g][i]
                          f == arg.manifests[e.path]
                      IN  /\ r.name = e.name /\ r.path = e.path /\ r.isDir = e.isDir
                          /\ r.group = g
                          /\ r.moduleName =
                                IF e.isDir /\ f.file = "ok"
                                      /\ f.pkgName # "<undefined>" /\ f.pkgName # ""
                                THEN f.pkgName
                                ELSE e.path[Len(e.path)]
    /\ ret.done =>
          (ret.threw <=>
              \E g \in {"contracts", "crates"} :
                 \E i \in 1..Len(arg.copyList[g]) :
                    /\ arg.copyList[g][i].isDir
                    /\ arg.manifests[arg.copyList[g][i].path].file = "malformed")

C9_Witness ==
    /\ ret.done
    /\ ~ret.threw
    /\ \E i \in 1..Len(ret.value.contracts) :
          ret.value.contracts[i].isDir /\ ret.value.contracts[i].moduleName = "flipper_pkg"
    /\ \E i \in 1..Len(ret.value.crates) :
          /\ ret.value.crates[i].isDir
          /\ arg.manifests[ret.value.crates[i].path] = Manifest(Undefined)
          /\ ret.value.crates[i].moduleName = "util"
    /\ \E i \in 1..Len(ret.value.contracts) :
          /\ ~ret.value.contracts[i].isDir
          /\ arg.manifests[ret.value.contracts[i].path] = Manifest("flipper_pkg")
          /\ ret.value.contracts[i].moduleName = "lib.rs"
    /\ Len(ret.value.tests) = 1

\* position of a group in the order contracts, crates, tests
GroupRank(g) == CHOOSE k \in 1..3 : <<"contracts", "crates", "tests">>[k] = g

\* the calls made so far: every call is in one of the three subtrees, the
\* groups come in order, a group's directory is ensured before anything is
\* copied into it, and the entries of a group are copied in order, each to
\* <group>/<entry.name>
CopyOrder ==
    LET log == ret.log
    IN  /\ \A p \in 1..Len(log) :
              /\ log[p].dest[1] \in Groups
              /\ log[p].op = "ensureDir" => log[p].dest = <<log[p].dest[1]>>
              /\ log[p].op = "copy" =>
                    \E q \in 1..(p - 1) :
                        log[q].op = "ensureDir" /\ log[q].dest = <<log[p].dest[1]>>
        /\ \A p, q \in 1..Len(log) :
              p < q => GroupRank(log[p].dest[1]) <= GroupRank(log[q].dest[1])
        /\ \A g \in Groups :
              LET copies == SelectSeq(log, LAMBDA o : o.op = "copy" /\ o.dest[1] = g)
              IN  /\ Len(copies) <= Len(arg.copyList[g])
                  /\ \A i \in 1..Len(copies) :
                        /\ copies[i].src = arg.copyList[g][i].path
                        /\ copies[i].dest = <<g, arg.copyList[g][i].name>>

\* after success: the three directories are there, also for an empty group,
\* every entry was copied, and nothing else was written
CopiedAll ==
    /\ \A g \in Groups :
          /\ <<g>> \in DOMAIN ret.tree
          /\ Len(SelectSeq(ret.log, LAMBDA o : o.op = "copy" /\ o.dest[1] = g))
                 = Len(arg.copyList[g])
          /\ \A i \in 1..Len(arg.copyList[g]) :
                <<g, arg.copyList[g][i].name>> \in DOMAIN ret.tree
    /\ DOMAIN ret.tree =
          {<<g>> : g \in Groups}
          \cup UNION {{<<g, arg.copyList[g][i].name>> : i \in 1..Len(arg.copyList[g])} :
                         g \in Groups}
    /\ DOMAIN ret.tree =
          {<<g>> : g \in copyWorkspaceContracts(arg.copyList).dirs}
          \cup copyWorkspaceContracts(arg.copyList).copies

CheckedContracts ==
    PickSeq(arg.candidates.contracts,
            {i \in 1..Len(arg.candidates.contracts) : i \in ret.checked})

\* the module name the resolver gives an entry
ResolvedName(e) ==
    LET f == arg.manifests[e.path]
    IN  IF e.isDir /\ f.file = "ok" /\ f.pkgName # "<undefined>" /\ f.pkgName # ""
        THEN f.pkgName
        ELSE e.path[Len(e.path)]

\* C18 as stated: after planning, every confirmed contract entry has its
\* own entry in the configuration, keyed by its name, with its name, its
\* resolved moduleName and no deployments; there are as many entries as
\* confirmed contracts and none for anything else.
C18_OneEntryPerContract ==
    (ret.done /\ ~ret.threw) =>
        /\ \A i \in 1..Len(CheckedContracts) :
              LET e == CheckedContracts[i]
              IN  /\ e.name \in DOMAIN ret.contracts
                  /\ ret.contracts[e.name] =
                        [name |-> e.name, moduleName |-> ResolvedName(e),
                         deployments |-> <<>>]
        /\ Cardinality(DOMAIN ret.contracts) = Len(CheckedContracts)
        /\ DOMAIN ret.contracts \subseteq {e.name : e \in Range(CheckedContracts)}

\* C18 amended: the configuration has one entry for every name of a
\* confirmed contract entry, with that name, no deployments and the resolved
\* moduleName of the last confirmed contract entry of that name; there are
\* as many entries as distinct names, and none for anything else.
C18_OneEntryPerName ==
    (ret.done /\ ~ret.threw) =>
        /\ DOMAIN ret.contracts = {e.name : e \in Range(CheckedContracts)}
        /\ \A i \in 1..Len(CheckedContracts) :
              LET e    == CheckedContracts[i]
                  last == CHOOSE j \in i..Len(CheckedContracts) :
                              /\ CheckedContracts[j].name = e.name
                              /\ \A k \in (j + 1)..Len(CheckedContracts) :
                                    CheckedContracts[k].name # e.name
              IN  ret.contracts[e.name] =
                      [name |-> e.name,
                       moduleName |-> ResolvedName(CheckedContracts[last]),
                       deployments |-> <<>>]
        /\ \A i \in 1..Len(ret.confirmed.contracts) :
              /\ ret.confirmed.contracts[i].path = CheckedContracts[i].path
              /\ ret.confirmed.contracts[i].moduleName = ResolvedName(CheckedContracts[i])

C18_Witness ==
    /\ ret.done
    /\ ~ret.threw
    /\ Len(ret.confirmed.contracts) = 2
    /\ ret.confirmed.contracts[1].name = ret.confirmed.contracts[2].name
    /\ ret.confirmed.contracts[1].moduleName # ret.confirmed.contracts[2].moduleName
    /\ Len(ret.confirmed.crates) = 1
    /\ Cardinality(DOMAIN ret.contracts) = 1

\* what the command is given
HasRecord == arg.contractName \in DOMAIN arg.swankyConfig.contracts

HasPath == <<"contracts", arg.contractName>> \in arg.files

HasArtifacts ==
    /\ <<"artifacts", arg.contractName, "metadata.json">> \in arg.files
    /\ <<"artifacts", arg.contractName, "bundle.contract">> \in arg.files

\* C19: typegen generates types only when the contract has a record in the
\* configuration, its path exists and all its artifacts exist; it checks in
\* that order and stops at the first check that fails, with ConfigError for
\* a missing record and FileError for a missing path or artifact, and it
\* does not generate anything then.
C19_TypegenChecks ==
    /\ \E k \in 0..3 : ret.checks = SubSeq(<<"record", "path", "artifacts">>, 1, k)
    /\ ret.generated => (HasRecord /\ HasPath /\ HasArtifacts /\ Len(ret.checks) = 3)
    /\ ret.error \in {"ConfigError", "FileError"} => ~ret.generated
    /\ ret.done =>
          IF ~HasRecord
          THEN ret.error = "ConfigError" /\ ret.checks = <<"record">>
          ELSE IF ~HasPath
          THEN ret.error = "FileError" /\ ret.checks = <<"record", "path">>
          ELSE IF ~HasArtifacts
          THEN ret.error = "FileError" /\ Len(ret.checks) = 3
          ELSE ret.generated /\ ret.error \notin {"ConfigError", "FileError"}

C19_Witness ==
    /\ ret.done
    /\ ret.error = "FileError"
    /\ HasRecord
    /\ HasPath
    /\ ~HasArtifacts
    /\ Cardinality(artifactPaths(arg.contractName) \cap arg.files) = 1

\* C21: the tests group follows the answers: a detected directory that the
\* user declines, with no other directory specified, leaves the group empty;
\* a detected directory that the user accepts is the one discovered; a
\* directory the user specifies is the one discovered.
C21_AnswersHonoured ==
    (arg.fn = "detectTests" /\ ret.done) =>
        LET detected == firstExisting(arg.existing)
        IN  /\ (ret.shouldUseDetectedTestDir = "no" /\ ret.shouldInputTestDir = "no")
                    => ret.tests = <<>>
            /\ ret.shouldUseDetectedTestDir = "yes"
                    => ret.tests = getDirsAndFiles(<<detected>>)
            /\ ret.shouldInputTestDir = "yes"
                    => ret.tests = testsCandidates(ret.manualTestDir[1], arg.existing)

\* C22: the clear command reports its steps in the order artifacts
\* directory, cargo target directory, test artifacts, and "Cleared test
\* artifacts directories" is reported only when tests/<name>/artifacts has
\* been removed for every contract name of the configuration: no removal is
\* still running and none has failed.
C22_ClearedAfterRemoval ==
    arg.fn = "clear" =>
        /\ \E k \in 0..3 :
              ret.log = SubSeq(<<"Cleared artifacts directory",
                                 "Cleared cargo target directory",
                                 "Cleared test artifacts directories">>, 1, k)
        /\ "Cleared test artifacts directories" \in Range(ret.log) =>
              \A contractName \in DOMAIN arg.swankyConfig.contracts :
                  /\ contractName \notin ret.running
                  /\ contractName \notin ret.failed
                  /\ testArtifacts(contractName) \notin ret.dirs

====
